---------------------------- MODULE Spec2Model ----------------------------
(***************************************************************************)
(* Model of src/api/client.rs: the token store of SpotifyClient, the       *)
(* authentication step and the two send paths of SpotifyRequest, the       *)
(* classification of the HTTP response, and SpotifyResponse::deserialize.  *)
(*                                                                         *)
(* Strings whose characters the code inspects (header values) are          *)
(* sequences of one-byte strings; Option<T> is a record with a `some`      *)
(* flag; Result<T, E> is a record with an `ok` flag.                       *)
(***************************************************************************)
EXTENDS Integers, Sequences, FiniteSets, TLC

(* ----------------------------- bounds ---------------------------------- *)

\* Number of request builders whose send()/send_no_response() may be in
\* flight at the same time.
NCalls == 2

Calls == 1..NCalls

(* ------------------------ Option and Result ----------------------------- *)

None == [some |-> FALSE]

Some(x) == [some |-> TRUE, val |-> x]

unwrap_or(opt, default) == IF opt.some THEN opt.val ELSE default

(* ------------------------------ tokens ---------------------------------- *)

\* Values an external auth flow may install.  They are header-safe strings:
\* the model does not cover a token that HeaderValue rejects.
Tokens == {"t1", "t2"}

\* format!("Bearer {}", token)
Bearer(t) == <<"Bearer", t>>

(* --------------------------- header values ------------------------------ *)

Digits == {"0", "1", "2", "3", "4", "5", "6", "7", "8", "9"}

\* HeaderValue::to_str accepts the visible ASCII bytes (32..126) and tab.
\* These are the ones the model's header values use.
VisibleAscii ==
    Digits \cup {"m", "a", "x", "g", "e", "n", "o", "c", "h", "v", "W",
                 "-", "=", ",", " ", "+", "/", "\""}

\* A byte of obs-text (0x80..0xFF), legal in a header value, not in to_str.
ObsText == "0xE9"

\* header.to_str().ok()
to_str(h) ==
    IF \A i \in 1..Len(h) : h[i] \in VisibleAscii THEN Some(h) ELSE None

\* str::split(sep): the pieces of s between the occurrences of sep.
RECURSIVE split(_, _)
split(s, sep) ==
    IF \E i \in 1..Len(s) : s[i] = sep
    THEN LET i == CHOOSE k \in 1..Len(s) :
                      s[k] = sep /\ \A j \in 1..(k - 1) : s[j] # sep
         IN  <<SubSeq(s, 1, i - 1)>> \o split(SubSeq(s, i + 1, Len(s)), sep)
    ELSE <<s>>

Whitespace == {" ", "\t"}

\* str::trim()
RECURSIVE trim(_)
trim(s) ==
    IF s = <<>> THEN s
    ELSE IF s[1] \in Whitespace THEN trim(Tail(s))
    ELSE IF s[Len(s)] \in Whitespace THEN trim(SubSeq(s, 1, Len(s) - 1))
    ELSE s

\* str::starts_with(prefix)
starts_with(s, prefix) ==
    Len(s) >= Len(prefix) /\ SubSeq(s, 1, Len(prefix)) = prefix

MaxAgePrefix == <<"m", "a", "x", "-", "a", "g", "e", "=">>

DigitVal(d) ==
    CASE d = "0" -> 0 [] d = "1" -> 1 [] d = "2" -> 2 [] d = "3" -> 3
      [] d = "4" -> 4 [] d = "5" -> 5 [] d = "6" -> 6 [] d = "7" -> 7
      [] d = "8" -> 8 [] d = "9" -> 9

RECURSIVE DecimalValue(_)
DecimalValue(ds) ==
    IF ds = <<>> THEN 0
    ELSE 10 * DecimalValue(SubSeq(ds, 1, Len(ds) - 1)) + DigitVal(ds[Len(ds)])

\* u64::MAX = 18446744073709551615
U64MaxDigits ==
    <<"1", "8", "4", "4", "6", "7", "4", "4", "0", "7",
      "3", "7", "0", "9", "5", "5", "1", "6", "1", "5">>

RECURSIVE strip_zeros(_)
strip_zeros(ds) ==
    IF Len(ds) > 1 /\ ds[1] = "0" THEN strip_zeros(Tail(ds)) ELSE ds

\* Whether the decimal number ds (no leading zero) exceeds u64::MAX.
overflows_u64(ds) ==
    \/ Len(ds) > Len(U64MaxDigits)
    \/ /\ Len(ds) = Len(U64MaxDigits)
       /\ \E i \in 1..Len(ds) :
             /\ DigitVal(ds[i]) > DigitVal(U64MaxDigits[i])
             /\ \A j \in 1..(i - 1) : ds[j] = U64MaxDigits[j]

\* u64::from_str(s).ok(): an optional '+', then one or more decimal digits
\* whose value fits 64 bits.
u64_from_str(s) ==
    LET ds == IF s # <<>> /\ s[1] = "+" THEN Tail(s) ELSE s
    IN  IF /\ ds # <<>>
           /\ \A i \in 1..Len(ds) : ds[i] \in Digits
           /\ ~overflows_u64(strip_zeros(ds))
        THEN Some(DecimalValue(strip_zeros(ds)))
        ELSE None

\* Faulty variant: the directive is not trimmed before the test.
RECURSIVE find_max_age_untrimmed(_)
find_max_age_untrimmed(parts) ==
    IF parts = <<>> THEN None
    ELSE IF starts_with(parts[1], MaxAgePrefix) THEN Some(parts[1])
    ELSE find_max_age_untrimmed(Tail(parts))

\* Iterator::find over the directives.
RECURSIVE find_max_age(_)
find_max_age(parts) ==
    IF parts = <<>> THEN None
    ELSE IF starts_with(trim(parts[1]), MaxAgePrefix) THEN Some(parts[1])
    ELSE find_max_age(Tail(parts))

\* Iterator::nth(1)
nth1(parts) == IF Len(parts) >= 2 THEN Some(parts[2]) ELSE None

parse_cache_control(cache_control) ==
    LET found == find_max_age(split(cache_control, ","))
        value == IF found.some THEN nth1(split(found.val, "=")) ELSE None
    IN  IF value.some THEN u64_from_str(value.val) ELSE None

(* ------------------------- the HTTP exchange ---------------------------- *)

UNAUTHORIZED == 401

NOT_MODIFIED == 304

\* max_age of an envelope whose response gave no usable Cache-Control.
DefaultMaxAge == 10

\* Status codes the transport may deliver (StatusCode ranges over 100..999):
\* the borders of the 2xx class, 304, 401, and one code of each other class.
Statuses == {100, 199, 200, 299, 300, 304, 401, 404, 500}

\* ETag header of a response: absent, a visible-ASCII tag, a tag with obs-text.
ETagHeaders == {None, Some(<<"v", "1">>), Some(<<"v", ObsText>>)}

\* Cache-Control header of a response: absent, max-age=5, a max-age directive
\* after another one, a malformed max-age, a value to_str rejects.
CacheControlHeaders ==
    {None,
     Some(MaxAgePrefix \o <<"5">>),
     Some(<<"n", "o", "-", "c", "a", "c", "h", "e", ",", " ">> \o MaxAgePrefix \o <<"7">>),
     Some(MaxAgePrefix \o <<"x">>),
     Some(MaxAgePrefix \o <<"5", ObsText>>)}

Responses ==
    [status : Statuses, etag : ETagHeaders, cache_control : CacheControlHeaders]

\* Body texts: a JSON document of the expected type, malformed JSON, nothing.
Texts == {"[true]", "[tru", ""}

\* Outcome of result.text().await: the whole body as text, or a read error.
BodyReads == {[ok |-> TRUE, text |-> t] : t \in Texts} \cup {[ok |-> FALSE]}

(* ----------------------------- outcomes --------------------------------- *)

Err(kind) == [ok |-> FALSE, error |-> kind, code |-> 0]

NoToken == Err("NoToken")

InvalidToken == Err("InvalidToken")

ClientError == Err("ClientError")

IoError == Err("IoError")

BadStatus(code) == [ok |-> FALSE, error |-> "BadStatus", code |-> code]

\* Ok(()) of send_no_response
OkUnit == [ok |-> TRUE, unit |-> TRUE]

\* SpotifyResponseKind::Ok(text, _) / SpotifyResponseKind::NotModified
KindOk(text) == [tag |-> "Ok", text |-> Some(text)]

KindNotModified == [tag |-> "NotModified", text |-> None]

\* Ok(SpotifyResponse { kind, max_age, etag })
OkEnvelope(kind, max_age, etag) ==
    [ok |-> TRUE, unit |-> FALSE, kind |-> kind, max_age |-> max_age, etag |-> etag]

\* No outcome yet.
Pending == [ok |-> FALSE, error |-> "pending", code |-> 0]

(* ------------------------ pure parts of the code ------------------------ *)

\* Faulty variant: the upper border of the success class is off by one.
is_success_inclusive(s) == 200 <= s /\ s <= 300

\* StatusCode::is_success
is_success(s) == 200 <= s /\ s < 300

\* Faulty variant: the header is added without the check for an absent token.
authenticated_unchecked(tok) ==
    [ok |-> TRUE, header |-> Bearer(unwrap_or(tok, ""))]

\* token.as_ref().ok_or(NoToken)? and the Authorization header
authenticated(tok) ==
    IF tok.some THEN [ok |-> TRUE, header |-> Bearer(tok.val)] ELSE NoToken

\* result.headers().get("etag").and_then(to_str).map(to_owned)
etag_of(resp) == IF resp.etag.some THEN to_str(resp.etag.val) ELSE None

\* result.headers().get("cache-control").and_then(to_str).and_then(parse)
cache_control_of(resp) ==
    LET text == IF resp.cache_control.some THEN to_str(resp.cache_control.val)
                ELSE None
    IN  IF text.some THEN parse_cache_control(text.val) ELSE None

\* Faulty variant: 304 is taken for a success with a body.
send_req_arm_304_body(s) ==
    IF is_success(s) \/ s = NOT_MODIFIED THEN "success"
    ELSE IF s = UNAUTHORIZED THEN "unauthorized"
    ELSE "other"

\* The arm of send_req's match that a status selects.
send_req_arm(s) ==
    IF is_success(s) THEN "success"
    ELSE IF s = UNAUTHORIZED THEN "unauthorized"
    ELSE IF s = NOT_MODIFIED THEN "not_modified"
    ELSE "other"

\* Faulty variant: every 4xx status is treated as a rejected token.
send_req_no_response_arm_4xx(s) ==
    IF 400 <= s /\ s < 500 THEN "unauthorized"
    ELSE IF s = NOT_MODIFIED THEN "not_modified"
    ELSE IF is_success(s) THEN "success"
    ELSE "other"

\* The arm of send_req_no_response's match that a status selects.
send_req_no_response_arm(s) ==
    IF s = UNAUTHORIZED THEN "unauthorized"
    ELSE IF s = NOT_MODIFIED THEN "not_modified"
    ELSE IF is_success(s) THEN "success"
    ELSE "other"

\* Faulty variant: the envelope is built before the ETag is attached.
success_result_no_etag(read, etag, cache_control) ==
    IF read.ok
    THEN OkEnvelope(KindOk(read.text), unwrap_or(cache_control, DefaultMaxAge), None)
    ELSE IoError

\* The success arm of send_req, once text().await has completed.
success_result(read, etag, cache_control) ==
    IF read.ok
    THEN OkEnvelope(KindOk(read.text), unwrap_or(cache_control, DefaultMaxAge), etag)
    ELSE IoError

\* Faulty variant: the 304 envelope ignores the headers of the response.
not_modified_result_no_headers(etag, cache_control) ==
    OkEnvelope(KindNotModified, DefaultMaxAge, None)

\* The NOT_MODIFIED arm of send_req.
not_modified_result(etag, cache_control) ==
    OkEnvelope(KindNotModified, unwrap_or(cache_control, DefaultMaxAge), etag)

\* The last arm of both matches.
other_result(s) == BadStatus(s)

\* serde_json::from_str::<T>(content) for the expected type T.
from_str(content) ==
    IF content = "[true]" THEN [ok |-> TRUE, value |-> <<TRUE>>]
    ELSE [ok |-> FALSE, error |-> "ParseError"]

\* Faulty variant: a parse failure is handed to the caller instead of None.
deserialize_propagating(response) ==
    IF response.kind.tag = "Ok"
    THEN LET parsed == from_str(response.kind.text.val)
         IN  IF parsed.ok THEN Some(parsed.value) ELSE parsed
    ELSE None

\* SpotifyResponse::deserialize
deserialize(response) ==
    IF response.kind.tag = "Ok"
    THEN LET parsed == from_str(response.kind.text.val)
         IN  IF parsed.ok THEN Some(parsed.value) ELSE None
    ELSE None

\* Faulty variant: the store is only written when it is empty.
update_token_if_empty(tok, new_token) == IF tok.some THEN tok ELSE Some(new_token)

\* *token = Some(new_token)
update_token(tok, new_token) == Some(new_token)

\* Faulty variant: the token survives the clear.
clear_token_kept(tok) == tok

\* *token = None
clear_token(tok) == None

\* token.is_some()
has_token(tok) == tok.some

(* --------------------------- search query ------------------------------- *)

\* SearchQuery::into_query_string is called by SpotifyClient::search and by
\* the tests of client.rs; its text is not part of client.rs.  It is
\* modelled from its documented behaviour and from the three test vectors.
\* A query text is a sequence of Unicode scalar values, a query string a
\* sequence of bytes.

\* The code of an ASCII character.
Ord(ch) ==
    CASE ch = " " -> 32 [] ch = "!" -> 33 [] ch = "#" -> 35 [] ch = "$" -> 36
      [] ch = "%" -> 37 [] ch = "&" -> 38 [] ch = "'" -> 39 [] ch = "(" -> 40
      [] ch = ")" -> 41 [] ch = "*" -> 42 [] ch = "+" -> 43 [] ch = "," -> 44
      [] ch = "-" -> 45 [] ch = "." -> 46 [] ch = "/" -> 47 [] ch = "0" -> 48
      [] ch = "1" -> 49 [] ch = "2" -> 50 [] ch = "3" -> 51 [] ch = "4" -> 52
      [] ch = "5" -> 53 [] ch = "6" -> 54 [] ch = "7" -> 55 [] ch = "8" -> 56
      [] ch = "9" -> 57 [] ch = ":" -> 58 [] ch = ";" -> 59 [] ch = "<" -> 60
      [] ch = "=" -> 61 [] ch = ">" -> 62 [] ch = "?" -> 63 [] ch = "@" -> 64
      [] ch = "A" -> 65 [] ch = "B" -> 66 [] ch = "C" -> 67 [] ch = "D" -> 68
      [] ch = "E" -> 69 [] ch = "F" -> 70 [] ch = "G" -> 71 [] ch = "H" -> 72
      [] ch = "I" -> 73 [] ch = "J" -> 74 [] ch = "K" -> 75 [] ch = "L" -> 76
      [] ch = "M" -> 77 [] ch = "N" -> 78 [] ch = "O" -> 79 [] ch = "P" -> 80
      [] ch = "Q" -> 81 [] ch = "R" -> 82 [] ch = "S" -> 83 [] ch = "T" -> 84
      [] ch = "U" -> 85 [] ch = "V" -> 86 [] ch = "W" -> 87 [] ch = "X" -> 88
      [] ch = "Y" -> 89 [] ch = "Z" -> 90 [] ch = "[" -> 91 [] ch = "]" -> 93
      [] ch = "^" -> 94 [] ch = "_" -> 95 [] ch = "a" -> 97
      [] ch = "b" -> 98 [] ch = "c" -> 99 [] ch = "d" -> 100 [] ch = "e" -> 101
      [] ch = "f" -> 102 [] ch = "g" -> 103 [] ch = "h" -> 104 [] ch = "i" -> 105
      [] ch = "j" -> 106 [] ch = "k" -> 107 [] ch = "l" -> 108 [] ch = "m" -> 109
      [] ch = "n" -> 110 [] ch = "o" -> 111 [] ch = "p" -> 112 [] ch = "q" -> 113
      [] ch = "r" -> 114 [] ch = "s" -> 115 [] ch = "t" -> 116 [] ch = "u" -> 117
      [] ch = "v" -> 118 [] ch = "w" -> 119 [] ch = "x" -> 120 [] ch = "y" -> 121
      [] ch = "z" -> 122 [] ch = "{" -> 123 [] ch = "|" -> 124 [] ch = "}" -> 125
      [] ch = "~" -> 126

\* The bytes of an ASCII string literal.
Str(s) == [i \in 1..Len(s) |-> Ord(s[i])]

\* u32::to_string(), in decimal.
RECURSIVE to_string(_)
to_string(n) ==
    IF n < 10 THEN <<Ord("0") + n>>
    ELSE to_string(n \div 10) \o <<Ord("0") + (n % 10)>>

\* The UTF-8 encoding of one scalar value.
utf8(cp) ==
    IF cp < 128 THEN <<cp>>
    ELSE IF cp < 2048 THEN <<192 + (cp \div 64), 128 + (cp % 64)>>
    ELSE IF cp < 65536
         THEN <<224 + (cp \div 4096), 128 + ((cp \div 64) % 64), 128 + (cp % 64)>>
    ELSE <<240 + (cp \div 262144), 128 + ((cp \div 4096) % 64),
           128 + ((cp \div 64) % 64), 128 + (cp % 64)>>

\* str::as_bytes()
RECURSIVE as_bytes(_)
as_bytes(text) ==
    IF text = <<>> THEN <<>> ELSE utf8(text[1]) \o as_bytes(Tail(text))

HexDigit(n) == IF n < 10 THEN Ord("0") + n ELSE Ord("A") + (n - 10)

\* The bytes form-encoding leaves as they are: ASCII letters, digits, * - . _
Unreserved(b) ==
    \/ b \in Ord("0")..Ord("9")
    \/ b \in Ord("A")..Ord("Z")
    \/ b \in Ord("a")..Ord("z")
    \/ b \in {Ord("*"), Ord("-"), Ord("."), Ord("_")}

\* Faulty variant: bytes above 127 are passed through.
byte_serialize_raw(b) ==
    IF Unreserved(b) \/ b > 127 THEN <<b>>
    ELSE IF b = Ord(" ") THEN <<Ord("+")>>
    ELSE <<Ord("%"), HexDigit(b \div 16), HexDigit(b % 16)>>

\* application/x-www-form-urlencoded, one byte.
byte_serialize(b) ==
    IF Unreserved(b) THEN <<b>>
    ELSE IF b = Ord(" ") THEN <<Ord("+")>>
    ELSE <<Ord("%"), HexDigit(b \div 16), HexDigit(b % 16)>>

RECURSIVE form_urlencode(_)
form_urlencode(bytes) ==
    IF bytes = <<>> THEN <<>>
    ELSE byte_serialize(bytes[1]) \o form_urlencode(Tail(bytes))

\* The question marks of the query text are dropped before it is encoded.
strip_question_marks(query) == SelectSeq(query, LAMBDA ch : ch # Ord("?"))

SearchTypes == {"Album", "Artist"}

\* SearchType::into_string(): the lower-case name.
into_string(t) ==
    CASE t = "Album" -> Str(<<"a", "l", "b", "u", "m">>)
      [] t = "Artist" -> Str(<<"a", "r", "t", "i", "s", "t">>)

\* Faulty variant: the names are joined in reverse order.
RECURSIVE join_types_reversed(_)
join_types_reversed(types) ==
    IF Len(types) = 0 THEN <<>>
    ELSE IF Len(types) = 1 THEN into_string(types[1])
    ELSE join_types_reversed(Tail(types)) \o <<Ord(",")>> \o into_string(types[1])

\* The type names joined by commas, in the order of the list.
RECURSIVE join_types(_)
join_types(types) ==
    IF Len(types) = 0 THEN <<>>
    ELSE IF Len(types) = 1 THEN into_string(types[1])
    ELSE into_string(types[1]) \o <<Ord(",")>> \o join_types(Tail(types))

MarketParam ==
    Str(<<"&", "m", "a", "r", "k", "e", "t", "=",
          "f", "r", "o", "m", "_", "t", "o", "k", "e", "n">>)

\* SearchQuery::into_query_string()
into_query_string(q) ==
    Str(<<"t", "y", "p", "e", "=">>) \o join_types(q.types)
      \o Str(<<"&", "q", "=">>)
      \o form_urlencode(as_bytes(strip_question_marks(q.query)))
      \o Str(<<"&", "o", "f", "f", "s", "e", "t", "=">>) \o to_string(q.offset)
      \o Str(<<"&", "l", "i", "m", "i", "t", "=">>) \o to_string(q.limit)
      \o MarketParam

(* ------------------------------- state ---------------------------------- *)

VARIABLES
    token,        \* SpotifyClient.token: Option<String> inside the Mutex
    lock,         \* holders of the Mutex
    lastTokenOp,  \* history: the last write to the token store
    pc,           \* per call: where the call stands
    mode,         \* per call: "send" or "send_no_response"
    hdr,          \* per call: Authorization header of the request being sent
    locals,       \* per call: etag and cache_control of send_req during text()
    ret,          \* per call: the outcome returned to the caller
    sends,        \* per call: how often the transport was invoked
    parsed,       \* per call: what deserialize() returned on the envelope
    extpc,        \* the auth flow's thread: "idle", "has_token", "update_token"
    extArg,       \* the argument of the update_token in progress
    hasRet,       \* what the last has_token() returned
    nreads,       \* per call: how often the body of the response was read
    pure,         \* a call of a pure function: its name, argument and result
    tokenSent     \* history: a request has carried the value last stored

vars == <<token, lock, lastTokenOp, pc, mode, hdr, locals, ret, sends, parsed,
          extpc, extArg, hasRet, nreads, pure, tokenSent>>

callVars == <<pc, mode, hdr, locals, ret, sends, parsed, nreads>>

extVars == <<extpc, extArg, hasRet>>

Ext == <<"ext", 0>>

Caller(c) == <<"call", c>>

NoLocals == [etag |-> None, cache_control |-> None]

NoPure == [op |-> "none", arg |-> None, out |-> None]

\* SpotifyClient::new(): no token; no request exists yet.
InitClient ==
    /\ token = None
    /\ lock = {}
    /\ lastTokenOp = [op |-> "new", arg |-> None]
    /\ pc = [c \in Calls |-> "none"]
    /\ mode = [c \in Calls |-> "none"]
    /\ hdr = [c \in Calls |-> None]
    /\ locals = [c \in Calls |-> NoLocals]
    /\ ret = [c \in Calls |-> Pending]
    /\ sends = [c \in Calls |-> 0]
    /\ parsed = [c \in Calls |-> None]
    /\ extpc = "idle"
    /\ extArg = None
    /\ hasRet = None
    /\ nreads = [c \in Calls |-> 0]
    /\ tokenSent = FALSE

Init == InitClient /\ pure = NoPure

\* Faulty variant: the lock is taken although another thread holds it.
acquire_unguarded(holders, who) == lock' = holders \cup {who}

\* Mutex::lock(): blocks while another holder exists.
acquire(holders, who) == holders = {} /\ lock' = {who}

\* Faulty variant: the guard outlives the function that took the lock.
release_leaked(who) == lock' = lock

release(who) == lock' = lock \ {who}

(* --------------------------- the auth flow ------------------------------ *)

\* has_token(): self.token.lock()
has_token_lock ==
    /\ extpc = "idle"
    /\ acquire(lock, Ext)
    /\ extpc' = "has_token"
    /\ hasRet' = None
    /\ UNCHANGED <<token, lastTokenOp, callVars, extArg, pure, tokenSent>>

\* has_token(): .is_some(), the guard is dropped
has_token_return ==
    /\ extpc = "has_token"
    /\ hasRet' = Some(has_token(token))
    /\ release(Ext)
    /\ extpc' = "idle"
    /\ UNCHANGED <<token, lastTokenOp, callVars, extArg, pure, tokenSent>>

\* update_token(new_token): self.token.lock()
update_token_lock(new_token) ==
    /\ extpc = "idle"
    /\ acquire(lock, Ext)
    /\ extpc' = "update_token"
    /\ extArg' = Some(new_token)
    /\ hasRet' = None
    /\ UNCHANGED <<token, lastTokenOp, callVars, pure, tokenSent>>

\* update_token(new_token): *token = Some(new_token), the guard is dropped
update_token_store ==
    /\ extpc = "update_token"
    /\ token' = update_token(token, extArg.val)
    /\ lastTokenOp' = [op |-> "update_token", arg |-> extArg]
    /\ tokenSent' = FALSE
    /\ release(Ext)
    /\ extpc' = "idle"
    /\ extArg' = None
    /\ UNCHANGED <<callVars, hasRet, pure>>

(* ------------------------------ a call ---------------------------------- *)

\* SpotifyClient::request(): a new builder; the previous outcome, if any, has
\* been taken by the caller.
request(c) ==
    /\ pc[c] \in {"none", "done"}
    /\ pc' = [pc EXCEPT ![c] = "built"]
    /\ mode' = [mode EXCEPT ![c] = "none"]
    /\ hdr' = [hdr EXCEPT ![c] = None]
    /\ locals' = [locals EXCEPT ![c] = NoLocals]
    /\ ret' = [ret EXCEPT ![c] = Pending]
    /\ sends' = [sends EXCEPT ![c] = 0]
    /\ parsed' = [parsed EXCEPT ![c] = None]
    /\ nreads' = [nreads EXCEPT ![c] = 0]
    /\ UNCHANGED <<token, lock, lastTokenOp, extVars, pure, tokenSent>>

\* send() / send_no_response() enter authenticated(): self.client.token.lock()
authenticated_lock(c, m) ==
    /\ pc[c] = "built"
    /\ acquire(lock, Caller(c))
    /\ pc' = [pc EXCEPT ![c] = "authenticating"]
    /\ mode' = [mode EXCEPT ![c] = m]
    /\ UNCHANGED <<token, lastTokenOp, hdr, locals, ret, sends, parsed, extVars, nreads, pure, tokenSent>>

\* The rest of authenticated() and, when it succeeded, the call of
\* send_req / send_req_no_response up to self.client.send_async(request).
authenticated_body(c) ==
    /\ pc[c] = "authenticating"
    /\ release(Caller(c))
    /\ LET auth == authenticated(token)
       IN  IF auth.ok
           THEN /\ hdr' = [hdr EXCEPT ![c] = Some(auth.header)]
                /\ sends' = [sends EXCEPT ![c] = @ + 1]
                /\ pc' = [pc EXCEPT ![c] = "awaiting"]
                /\ ret' = ret
                /\ tokenSent' = TRUE
           ELSE /\ ret' = [ret EXCEPT ![c] = auth]
                /\ pc' = [pc EXCEPT ![c] = "done"]
                /\ UNCHANGED <<hdr, sends, tokenSent>>
    /\ UNCHANGED <<token, lastTokenOp, mode, locals, parsed, extVars, nreads, pure>>

\* Faulty variant: a failed send is tried again.
send_async_error_retry(c) ==
    /\ pc[c] = "awaiting"
    /\ sends' = [sends EXCEPT ![c] = @ + 1]
    /\ UNCHANGED <<token, lock, lastTokenOp, pc, mode, hdr, locals, ret, parsed, extVars, nreads, pure, tokenSent>>

\* self.client.send_async(request).await? fails: no response was received.
send_async_error(c) ==
    /\ pc[c] = "awaiting"
    /\ pc' = [pc EXCEPT ![c] = "done"]
    /\ ret' = [ret EXCEPT ![c] = ClientError]
    /\ hdr' = [hdr EXCEPT ![c] = None]
    /\ UNCHANGED <<token, lock, lastTokenOp, mode, locals, sends, parsed, extVars, nreads, pure, tokenSent>>

\* send_req after send_async returned resp: the headers are read and the
\* status is matched.
send_req(c, resp) ==
    /\ pc[c] = "awaiting"
    /\ mode[c] = "send"
    /\ hdr' = [hdr EXCEPT ![c] = None]
    /\ LET etag == etag_of(resp)
           cache_control == cache_control_of(resp)
           arm == send_req_arm(resp.status)
       IN  CASE arm = "success" ->
                  /\ pc' = [pc EXCEPT ![c] = "reading"]
                  /\ locals' = [locals EXCEPT ![c] =
                                   [etag |-> etag, cache_control |-> cache_control]]
                  /\ ret' = ret
             [] arm = "unauthorized" ->
                  /\ pc' = [pc EXCEPT ![c] = "clearing"]
                  /\ UNCHANGED <<locals, ret>>
             [] arm = "not_modified" ->
                  /\ pc' = [pc EXCEPT ![c] = "done"]
                  /\ ret' = [ret EXCEPT ![c] = not_modified_result(etag, cache_control)]
                  /\ locals' = locals
             [] OTHER ->
                  /\ pc' = [pc EXCEPT ![c] = "done"]
                  /\ ret' = [ret EXCEPT ![c] = other_result(resp.status)]
                  /\ locals' = locals
    /\ UNCHANGED <<token, lock, lastTokenOp, mode, sends, parsed, extVars, nreads, pure, tokenSent>>

\* result.text().await? completes in the success arm of send_req.
text_read(c, read) ==
    /\ pc[c] = "reading"
    /\ pc' = [pc EXCEPT ![c] = "done"]
    /\ ret' = [ret EXCEPT ![c] =
                  success_result(read, locals[c].etag, locals[c].cache_control)]
    /\ locals' = [locals EXCEPT ![c] = NoLocals]
    /\ nreads' = [nreads EXCEPT ![c] = @ + 1]
    /\ UNCHANGED <<token, lock, lastTokenOp, mode, hdr, sends, parsed, extVars, pure, tokenSent>>

\* send_req_no_response after send_async returned resp.
send_req_no_response(c, resp) ==
    /\ pc[c] = "awaiting"
    /\ mode[c] = "send_no_response"
    /\ hdr' = [hdr EXCEPT ![c] = None]
    /\ LET arm == send_req_no_response_arm(resp.status)
       IN  CASE arm = "unauthorized" ->
                  /\ pc' = [pc EXCEPT ![c] = "clearing"]
                  /\ ret' = ret
             [] arm \in {"not_modified", "success"} ->
                  /\ pc' = [pc EXCEPT ![c] = "done"]
                  /\ ret' = [ret EXCEPT ![c] = OkUnit]
             [] OTHER ->
                  /\ pc' = [pc EXCEPT ![c] = "done"]
                  /\ ret' = [ret EXCEPT ![c] = other_result(resp.status)]
    /\ UNCHANGED <<token, lock, lastTokenOp, mode, locals, sends, parsed, extVars, nreads, pure, tokenSent>>

\* The UNAUTHORIZED arm: clear_token() takes the lock.
clear_token_lock(c) ==
    /\ pc[c] = "clearing"
    /\ acquire(lock, Caller(c))
    /\ pc' = [pc EXCEPT ![c] = "clear_locked"]
    /\ UNCHANGED <<token, lastTokenOp, mode, hdr, locals, ret, sends, parsed, extVars, nreads, pure, tokenSent>>

\* Faulty variant: the 401 of one call also ends every other call in flight.
clear_token_store_cancelling(c) ==
    /\ pc[c] = "clear_locked"
    /\ token' = clear_token(token)
    /\ lastTokenOp' = [op |-> "clear_token", arg |-> None]
    /\ release(Caller(c))
    /\ pc' = [d \in Calls |->
                 IF d = c \/ pc[d] \in {"awaiting", "reading"} THEN "done" ELSE pc[d]]
    /\ ret' = [d \in Calls |->
                  IF d = c \/ pc[d] \in {"awaiting", "reading"} THEN InvalidToken
                  ELSE ret[d]]
    /\ UNCHANGED <<mode, hdr, locals, sends, parsed, extVars, nreads, pure, tokenSent>>

\* Faulty variant: a stored value that no request has carried is kept.
clear_token_store_unsent_kept(c) ==
    /\ pc[c] = "clear_locked"
    /\ token' = IF tokenSent THEN clear_token(token) ELSE token
    /\ lastTokenOp' = [op |-> "clear_token", arg |-> None]
    /\ release(Caller(c))
    /\ pc' = [pc EXCEPT ![c] = "done"]
    /\ ret' = [ret EXCEPT ![c] = InvalidToken]
    /\ UNCHANGED <<mode, hdr, locals, sends, parsed, extVars, nreads, pure, tokenSent>>

\* *token = None, the guard is dropped, Err(InvalidToken) is returned.
clear_token_store(c) ==
    /\ pc[c] = "clear_locked"
    /\ token' = clear_token(token)
    /\ lastTokenOp' = [op |-> "clear_token", arg |-> None]
    /\ release(Caller(c))
    /\ pc' = [pc EXCEPT ![c] = "done"]
    /\ ret' = [ret EXCEPT ![c] = InvalidToken]
    /\ UNCHANGED <<mode, hdr, locals, sends, parsed, extVars, nreads, pure, tokenSent>>

\* The caller calls deserialize() on the envelope it was given.
deserialize_call(c) ==
    /\ pc[c] = "done"
    /\ ret[c].ok
    /\ ~ret[c].unit
    /\ parsed' = [parsed EXCEPT ![c] = Some(deserialize(ret[c]))]
    /\ UNCHANGED <<token, lock, lastTokenOp, pc, mode, hdr, locals, ret, sends, extVars, nreads, pure, tokenSent>>

Modes == {"send", "send_no_response"}

\* One step of the client, its calls being `calls`, the transport answering
\* from `responses` and text() from `reads`.
Step(calls, responses, reads) ==
    \/ has_token_lock
    \/ has_token_return
    \/ \E t \in Tokens : update_token_lock(t)
    \/ update_token_store
    \/ \E c \in calls : request(c)
    \/ \E c \in calls, m \in Modes : authenticated_lock(c, m)
    \/ \E c \in calls : authenticated_body(c)
    \/ \E c \in calls : send_async_error(c)
    \/ \E c \in calls, resp \in responses : send_req(c, resp)
    \/ \E c \in calls, read \in reads : text_read(c, read)
    \/ \E c \in calls, resp \in responses : send_req_no_response(c, resp)
    \/ \E c \in calls : clear_token_lock(c)
    \/ \E c \in calls : clear_token_store(c)
    \/ \E c \in calls : deserialize_call(c)

\* One response of each class of status, with both headers usable.
CoreResponses ==
    {r \in Responses : /\ r.status \in {200, NOT_MODIFIED, UNAUTHORIZED, 404}
                       /\ r.etag = Some(<<"v", "1">>)
                       /\ r.cache_control = Some(MaxAgePrefix \o <<"5">>)}

CoreReads == {[ok |-> TRUE, text |-> "[true]"], [ok |-> FALSE]}

\* Concurrent calls and the auth flow, one response of each class.
Next == Step(Calls, CoreResponses, CoreReads)

\* One call and the auth flow, every response and every body.
NextResponse == Step({1}, Responses, BodyReads)

Spec == Init /\ [][Next]_vars

SpecResponse == Init /\ [][NextResponse]_vars

(* ------------------------- the pure functions --------------------------- *)

clientVars == <<token, lock, lastTokenOp, callVars, extVars, tokenSent>>

\* "кириллица"
Cyrillic == <<1082, 1080, 1088, 1080, 1083, 1083, 1080, 1094, 1072>>

QueryTexts ==
    {<<>>,
     Str(<<"t", "e", "s", "t">>),
     Str(<<"t", "e", "s", "t", "?", "?", "?", " ", "w", "o", "w">>),
     Cyrillic,
     Str(<<"a", "&", "b", "=", "c">>),
     Str(<<"a", " ", " ", "b", "+", "%">>),
     Str(<<"?">>),
     Str(<<"c", "a", "f">>) \o <<233>> \o Str(<<" ", "?">>) \o <<8364, 128512>>}

TypeLists ==
    {<<"Album">>, <<"Artist">>, <<"Album", "Artist">>, <<"Artist", "Album">>}

SearchQueries ==
    [query : QueryTexts, types : TypeLists, limit : {5, 20}, offset : {0, 10, 100}]

InitQuery ==
    /\ InitClient
    /\ pure \in {[op |-> "into_query_string", arg |-> Some(q), out |-> None] :
                   q \in SearchQueries}

\* query.into_query_string(), as search() and the tests call it.
into_query_string_call ==
    /\ pure.op = "into_query_string"
    /\ ~pure.out.some
    /\ pure' = [pure EXCEPT !.out = Some(into_query_string(pure.arg.val))]
    /\ UNCHANGED clientVars

NextQuery == into_query_string_call

SpecQuery == InitQuery /\ [][NextQuery]_vars

\* The texts after "max-age=" the model tries: a number, a number with
\* leading zero, junk, a sign, padding, a second '=', and two numbers above
\* u64::MAX.
MaxAgeValues ==
    {<<>>, <<"5">>, <<"0", "7">>, <<"x">>, <<"5", "x">>, <<"-", "5">>,
     <<"+", "5">>, <<" ", "5">>, <<"5", " ">>, <<"5", "=", "6">>, <<"=", "5">>,
     [U64MaxDigits EXCEPT ![Len(U64MaxDigits)] = "6"], U64MaxDigits \o <<"0">>}

Directives ==
    {<<"n", "o", "-", "c", "a", "c", "h", "e">>,
     <<"m", "a", "x", "-", "a", "g", "e">>,
     <<"s", "-", "m", "a", "x", "a", "g", "e", "=", "5">>,
     <<"m", "a", "x", "-", "a", "g", "e", " ", "=", "5">>}
      \cup {pad \o MaxAgePrefix \o v : pad \in {<<>>, <<" ">>}, v \in MaxAgeValues}

\* Cache-Control values of no, one and two directives.
CacheControlValues ==
    {<<>>} \cup Directives
      \cup {d1 \o <<",">> \o d2 : d1 \in Directives, d2 \in Directives}

InitParse ==
    /\ InitClient
    /\ pure \in {[op |-> "parse_cache_control", arg |-> Some(h), out |-> None] :
                   h \in CacheControlValues}

\* Self::parse_cache_control(s), as send_req calls it on the header text.
parse_cache_control_call ==
    /\ pure.op = "parse_cache_control"
    /\ ~pure.out.some
    /\ pure' = [pure EXCEPT !.out = Some(parse_cache_control(pure.arg.val))]
    /\ UNCHANGED clientVars

NextParse == parse_cache_control_call

SpecParse == InitParse /\ [][NextParse]_vars

(* ------------------------------ claims ---------------------------------- *)

IsBadStatus(r) == ~r.ok /\ r.error = "BadStatus"

IsEnvelope(r) == r.ok /\ ~r.unit

\* C1: when the token store is empty at the authentication step of send() or
\* send_no_response(), the call returns NoToken and the transport is not
\* invoked for that call.
C1_NoTokenFailsWithoutTransport ==
    /\ [][\A c \in Calls :
            authenticated_body(c) /\ ~token.some
                => /\ pc'[c] = "done"
                   /\ ret'[c] = NoToken
                   /\ sends'[c] = 0]_vars
    /\ [](\A c \in Calls : ret[c] = NoToken => sends[c] = 0 /\ ~hdr[c].some)

C1_Witness ==
    \E c, d \in Calls :
        /\ pc[c] = "done" /\ ret[c] = NoToken /\ sends[c] = 0 /\ mode[c] = "send"
        /\ pc[d] = "done" /\ ret[d] = NoToken /\ sends[d] = 0
        /\ mode[d] = "send_no_response"

\* C2: a call that receives status 401, in send() or send_no_response(),
\* returns InvalidToken with the store emptied, and every has_token() that
\* runs after the 401 was processed and before a later update_token
\* returns false.
C2_UnauthorizedClearsToken ==
    [][/\ \A c \in Calls :
             pc[c] = "awaiting" /\ pc'[c] # "awaiting"
             => \A r \in Responses :
                   /\ r.status = 401
                   /\ send_req(c, r) \/ send_req_no_response(c, r)
                   => pc'[c] = "clearing" /\ ret'[c] = Pending
       /\ \A c \in Calls :
             /\ pc[c] \in {"clearing", "clear_locked"}
             /\ pc'[c] \notin {"clearing", "clear_locked"}
             => pc'[c] = "done" /\ ret'[c] = InvalidToken /\ ~token'.some
       /\ has_token_return /\ lastTokenOp.op = "clear_token"
             => hasRet' = Some(FALSE)]_vars

C2_Witness ==
    /\ hasRet = Some(FALSE)
    /\ lastTokenOp.op = "clear_token"
    /\ \E c, d \in Calls :
          /\ ret[c] = InvalidToken /\ mode[c] = "send"
          /\ ret[d] = InvalidToken /\ mode[d] = "send_no_response"

\* The header values the envelope is to carry, read off the response.
VisibleText(h) == h.some /\ \A i \in 1..Len(h.val) : h.val[i] \in VisibleAscii

EnvelopeEtag(r) == IF VisibleText(r.etag) THEN r.etag ELSE None

EnvelopeMaxAge(r) ==
    IF VisibleText(r.cache_control) /\ parse_cache_control(r.cache_control.val).some
    THEN parse_cache_control(r.cache_control.val).val
    ELSE 10

\* What the 2xx path keeps of a response while its body is read (C3).
KeptOf(r) == [etag |-> EnvelopeEtag(r), max_age |-> EnvelopeMaxAge(r)]

Kept(c) ==
    [etag |-> locals[c].etag, max_age |-> unwrap_or(locals[c].cache_control, 10)]

\* C3 as stated: every 2xx status received by send() gives an Ok envelope
\* with the body text, the ETag header value if one was present, and the
\* parsed max-age or 10.
C3_Original ==
    [][/\ \A c \in Calls, r \in Responses :
             send_req(c, r) /\ r.status \in 200..299
             => /\ pc'[c] = "reading"
                /\ locals'[c].etag = r.etag
                /\ unwrap_or(locals'[c].cache_control, 10) = EnvelopeMaxAge(r)
       /\ \A c \in Calls :
             pc[c] = "reading" /\ pc'[c] # "reading"
             => /\ pc'[c] = "done"
                /\ IsEnvelope(ret'[c])
                /\ ret'[c].kind.tag = "Ok"
                /\ ret'[c].etag = locals[c].etag
                /\ ret'[c].max_age = unwrap_or(locals[c].cache_control, 10)]_vars

\* C3 (amended): for every 2xx status received by send(), once the body has
\* been read the result is an Ok envelope with the whole body as text, the
\* ETag header value if one was present and is visible ASCII (absent
\* otherwise) and the parsed max-age or 10; when reading the body fails the
\* call returns the read error instead.
C3_SuccessEnvelope ==
    [][/\ \A c \in Calls, r \in Responses :
             send_req(c, r) /\ r.status \in 200..299
             => /\ pc'[c] = "reading"
                /\ ret'[c] = Pending
                /\ locals'[c].etag = EnvelopeEtag(r)
                /\ unwrap_or(locals'[c].cache_control, 10) = EnvelopeMaxAge(r)
       /\ \A c \in Calls, read \in BodyReads :
             text_read(c, read)
             => /\ pc'[c] = "done"
                /\ IF read.ok
                   THEN ret'[c] = [ok |-> TRUE, unit |-> FALSE,
                                   kind |-> [tag |-> "Ok", text |-> Some(read.text)],
                                   max_age |-> Kept(c).max_age,
                                   etag |-> Kept(c).etag]
                   ELSE ret'[c] = IoError]_vars

C3_Witness ==
    /\ pc[1] = "done"
    /\ IsEnvelope(ret[1])
    /\ ret[1].kind = [tag |-> "Ok", text |-> Some("[tru")]
    /\ ret[1].max_age = 7
    /\ ret[1].etag = Some(<<"v", "1">>)

\* C4: status 304 received by send() gives a NotModified envelope without
\* body text whose etag and max_age are those the 2xx path keeps for the
\* same headers; every returned envelope is NotModified without text or Ok
\* with text.
C4_NotModifiedEnvelope ==
    /\ [][\A c \in Calls, r \in Responses :
            send_req(c, r) /\ r.status = 304
            => /\ pc'[c] = "done"
               /\ ret'[c] = [ok |-> TRUE, unit |-> FALSE,
                             kind |-> [tag |-> "NotModified", text |-> None],
                             max_age |-> KeptOf(r).max_age,
                             etag |-> KeptOf(r).etag]]_vars
    /\ [](\A c \in Calls :
            IsEnvelope(ret[c])
            => \/ ret[c].kind.tag = "NotModified" /\ ~ret[c].kind.text.some
               \/ ret[c].kind.tag = "Ok" /\ ret[c].kind.text.some)

C4_Witness ==
    /\ pc[1] = "done"
    /\ IsEnvelope(ret[1])
    /\ ret[1].kind.tag = "NotModified"
    /\ ret[1].max_age = 5
    /\ ret[1].etag = Some(<<"v", "1">>)

\* C5: a status outside [200,299], 304 and 401 makes send() and
\* send_no_response() return BadStatus with exactly that code, and no other
\* status ever yields BadStatus.
C5_BadStatusCarriesCode ==
    [][/\ \A c \in Calls, r \in Responses :
             send_req(c, r) \/ send_req_no_response(c, r)
             => IF r.status \in (200..299) \cup {304, 401}
                THEN ~IsBadStatus(ret'[c])
                ELSE /\ pc'[c] = "done"
                     /\ ret'[c] = [ok |-> FALSE, error |-> "BadStatus",
                                   code |-> r.status]
       /\ \A c \in Calls :
             ret'[c] # ret[c] /\ IsBadStatus(ret'[c])
             => \E r \in Responses :
                   /\ r.status = ret'[c].code
                   /\ r.status \notin (200..299) \cup {304, 401}
                   /\ send_req(c, r) \/ send_req_no_response(c, r)]_vars

C5_Witness ==
    /\ pc[1] = "done"
    /\ mode[1] = "send_no_response"
    /\ ret[1] = BadStatus(300)

\* A step of call c that is neither the processing of a 401 nor the start of
\* a new request.
QuietCallStep(c) ==
    \/ \E m \in Modes : authenticated_lock(c, m)
    \/ authenticated_body(c)
    \/ send_async_error(c)
    \/ /\ pc[c] = "awaiting"
       /\ \E r \in Responses :
             r.status # 401 /\ (send_req(c, r) \/ send_req_no_response(c, r))
    \/ \E read \in BodyReads : text_read(c, read)
    \/ deserialize_call(c)

\* C6: the stored token changes only in update_token and in the processing of
\* a 401 response; has_token(), the authentication step, a NoToken failure,
\* a 2xx, 304 or BadStatus response, a transport failure and deserialize()
\* leave it unchanged.
C6_TokenFrame ==
    [][/\ token' # token
             => /\ update_token_store \/ \E c \in Calls : clear_token_store(c)
                /\ ~(has_token_lock \/ has_token_return)
                /\ \A c \in Calls : ~QuietCallStep(c)
       /\ \A c \in Calls :
             pc[c] = "awaiting" /\ pc'[c] = "clearing"
             => /\ \E r \in Responses :
                      send_req(c, r) \/ send_req_no_response(c, r)
                /\ \A r \in Responses :
                      send_req(c, r) \/ send_req_no_response(c, r)
                      => r.status = 401
       /\ \A c \in Calls :
             clear_token_lock(c) \/ clear_token_store(c)
             => pc[c] \in {"clearing", "clear_locked"}]_vars

C6_Witness ==
    \E c, d \in Calls :
        /\ ret[c] = BadStatus(404)
        /\ ret[d] = InvalidToken
        /\ lastTokenOp.op = "clear_token"
        /\ ~token.some

\* C7: the store is empty after new(); update_token(t) stores t whether the
\* store was empty or not, has_token() is true afterwards and the next
\* authentication step sends t; the store holds at most one token.
C7_TokenLifecycle ==
    /\ ~token.some
    /\ [](token \in {None} \cup {Some(t) : t \in Tokens})
    /\ [][/\ update_token_store => token' = extArg /\ token'.some
          /\ has_token_return
                => hasRet' = Some(lastTokenOp.op = "update_token")
          /\ \A c \in Calls :
                authenticated_body(c) /\ lastTokenOp.op = "update_token"
                => /\ pc'[c] = "awaiting"
                   /\ hdr'[c] = Some(<<"Bearer", lastTokenOp.arg.val>>)]_vars

C7_Witness ==
    /\ token = Some("t2")
    /\ hasRet = Some(TRUE)
    /\ \E c, d \in Calls :
          /\ pc[c] = "awaiting" /\ hdr[c] = Some(<<"Bearer", "t2">>)
          /\ ret[d] = InvalidToken

\* What call c does on receiving status s, read off the status alone.
OutcomeOfStatus(c, s) ==
    IF s \in 200..299
    THEN IF mode[c] = "send"
         THEN pc'[c] = "reading" /\ ret'[c] = Pending
         ELSE pc'[c] = "done" /\ ret'[c] = OkUnit
    ELSE IF s = 304
    THEN /\ pc'[c] = "done"
         /\ IF mode[c] = "send"
            THEN IsEnvelope(ret'[c]) /\ ret'[c].kind.tag = "NotModified"
            ELSE ret'[c] = OkUnit
    ELSE IF s = 401
    THEN pc'[c] = "clearing" /\ ret'[c] = Pending
    ELSE pc'[c] = "done" /\ ret'[c] = BadStatus(s)

\* C8: a 401 processed by one call changes nothing of the other calls; a call
\* past its authentication step keeps the header it captured while it waits,
\* and its outcome follows from its own response (or transport failure)
\* whatever has happened to the stored token since.
C8_InFlightUnaffected ==
    [][/\ \A c, d \in Calls :
             clear_token_store(c) /\ d # c
             => /\ pc'[d] = pc[d] /\ mode'[d] = mode[d] /\ hdr'[d] = hdr[d]
                /\ ret'[d] = ret[d] /\ sends'[d] = sends[d]
                /\ locals'[d] = locals[d]
       /\ \A d \in Calls :
             pc[d] = "awaiting"
             => /\ hdr[d].some
                /\ pc'[d] = "awaiting" => hdr'[d] = hdr[d]
                /\ pc'[d] # "awaiting"
                      => \/ pc'[d] = "done" /\ ret'[d] = ClientError
                         \/ \E s \in Statuses :
                               /\ OutcomeOfStatus(d, s)
                               /\ \E r \in Responses :
                                     /\ r.status = s
                                     /\ send_req(d, r) \/ send_req_no_response(d, r)
       /\ \A d \in Calls :
             pc[d] = "reading" /\ pc'[d] # "reading"
             => pc'[d] = "done" /\ (IsEnvelope(ret'[d]) \/ ret'[d] = IoError)]_vars

C8_Witness ==
    \E c, d \in Calls :
        /\ c # d
        /\ ret[c] = InvalidToken
        /\ lastTokenOp.op = "clear_token"
        /\ ~token.some
        /\ pc[d] = "awaiting"
        /\ hdr[d] = Some(<<"Bearer", "t1">>)

Deserialized(r) ==
    IF r.kind.tag = "Ok" /\ from_str(r.kind.text.val).ok
    THEN Some(from_str(r.kind.text.val).value)
    ELSE None

\* C10: deserialize() never fails: it gives nothing for a NotModified
\* envelope and for an Ok envelope whose text does not parse, the parsed
\* value otherwise, and leaves the envelope as it was, so that another call
\* gives the same.
C10_DeserializeSoftFails ==
    [][\A c \in Calls :
          deserialize_call(c)
          => /\ ret'[c] = ret[c]
             /\ pc'[c] = pc[c]
             /\ parsed'[c] = Some(Deserialized(ret[c]))
             /\ parsed[c].some => parsed'[c] = parsed[c]]_vars

C10_Witness ==
    /\ IsEnvelope(ret[1])
    /\ ret[1].kind = [tag |-> "Ok", text |-> Some("[tru")]
    /\ parsed[1] = Some(None)

\* The parameters of a query string, and the key and value of one.
Params(qs) == split(qs, Ord("&"))

Key(param) == split(param, Ord("="))[1]

Value(param) == SubSeq(param, Len(Key(param)) + 2, Len(param))

\* The number a run of decimal digits denotes.
RECURSIVE Number(_)
Number(ds) ==
    IF ds = <<>> THEN 0
    ELSE 10 * Number(SubSeq(ds, 1, Len(ds) - 1)) + (ds[Len(ds)] - Ord("0"))

IsDecimal(ds) ==
    /\ ds # <<>>
    /\ \A i \in 1..Len(ds) : ds[i] \in Ord("0")..Ord("9")
    /\ Len(ds) > 1 => ds[1] # Ord("0")

QueryCall == pure.op = "into_query_string" /\ pure.out.some

\* tests::test_search_query
SearchVector ==
    Str(<<"t", "y", "p", "e", "=", "a", "l", "b", "u", "m", ",", "a", "r",
              "t", "i", "s", "t", "&", "q", "=", "t", "e", "s", "t", "&", "o",
              "f", "f", "s", "e", "t", "=", "0", "&", "l", "i", "m", "i", "t",
              "=", "5", "&", "m", "a", "r", "k", "e", "t", "=", "f", "r", "o",
              "m", "_", "t", "o", "k", "e", "n">>)

\* C11: into_query_string() emits exactly the five parameters type, q,
\* offset, limit and market, in that order; type is the lower-case names of
\* the types joined by commas in the order given, offset and limit are the
\* decimal numbers, and market is from_token.
C11_FiveParameters ==
    QueryCall =>
        LET q == pure.arg.val
            params == Params(pure.out.val)
        IN  /\ Len(params) = 5
            /\ \A i \in 1..5 : Len(split(params[i], Ord("="))) = 2
            /\ Key(params[1]) = Str(<<"t", "y", "p", "e">>)
            /\ Key(params[2]) = Str(<<"q">>)
            /\ Key(params[3]) = Str(<<"o", "f", "f", "s", "e", "t">>)
            /\ Key(params[4]) = Str(<<"l", "i", "m", "i", "t">>)
            /\ Key(params[5]) = Str(<<"m", "a", "r", "k", "e", "t">>)
            /\ split(Value(params[1]), Ord(","))
                 = [i \in 1..Len(q.types) |-> into_string(q.types[i])]
            /\ \A i \in 1..Len(Value(params[1])) :
                  Value(params[1])[i] \in Ord("a")..Ord("z") \cup {Ord(",")}
            /\ IsDecimal(Value(params[3])) /\ Number(Value(params[3])) = q.offset
            /\ IsDecimal(Value(params[4])) /\ Number(Value(params[4])) = q.limit
            /\ Value(params[5])
                 = Str(<<"f", "r", "o", "m", "_", "t", "o", "k", "e", "n">>)
            /\ (q = [query |-> Str(<<"t", "e", "s", "t">>),
                     types |-> <<"Album", "Artist">>, limit |-> 5, offset |-> 0])
                  => pure.out.val = SearchVector

C11_Witness ==
    /\ QueryCall
    /\ pure.arg.val.types = <<"Album", "Artist">>
    /\ pure.arg.val.offset = 100
    /\ Params(pure.out.val)[1]
         = Str(<<"t", "y", "p", "e", "=", "a", "l", "b", "u", "m", ",",
                 "a", "r", "t", "i", "s", "t">>)

Count(s, x) == Cardinality({i \in 1..Len(s) : s[i] = x})

HexValue(d) == IF d \in Ord("0")..Ord("9") THEN d - Ord("0") ELSE d - Ord("A") + 10

\* The bytes that stand percent-encoded in a parameter value.
RECURSIVE PercentEncoded(_)
PercentEncoded(v) ==
    IF v = <<>> THEN <<>>
    ELSE IF v[1] = Ord("%") /\ Len(v) >= 3
    THEN <<16 * HexValue(v[2]) + HexValue(v[3])>>
           \o PercentEncoded(SubSeq(v, 4, Len(v)))
    ELSE PercentEncoded(Tail(v))

NonAscii(bytes) == SelectSeq(bytes, LAMBDA b : b > 127)

\* tests::test_search_query_spaces_and_stuff
SpacesVector ==
    Str(<<"t", "y", "p", "e", "=", "a", "l", "b", "u", "m", "&", "q", "=",
              "t", "e", "s", "t", "+", "w", "o", "w", "&", "o", "f", "f", "s",
              "e", "t", "=", "0", "&", "l", "i", "m", "i", "t", "=", "5", "&",
              "m", "a", "r", "k", "e", "t", "=", "f", "r", "o", "m", "_", "t",
              "o", "k", "e", "n">>)

\* tests::test_search_query_encoding
EncodingVector ==
    Str(<<"t", "y", "p", "e", "=", "a", "l", "b", "u", "m", "&", "q", "=",
              "%", "D", "0", "%", "B", "A", "%", "D", "0", "%", "B", "8", "%",
              "D", "1", "%", "8", "0", "%", "D", "0", "%", "B", "8", "%", "D",
              "0", "%", "B", "B", "%", "D", "0", "%", "B", "B", "%", "D", "0",
              "%", "B", "8", "%", "D", "1", "%", "8", "6", "%", "D", "0", "%",
              "B", "0", "&", "o", "f", "f", "s", "e", "t", "=", "0", "&", "l",
              "i", "m", "i", "t", "=", "5", "&", "m", "a", "r", "k", "e", "t",
              "=", "f", "r", "o", "m", "_", "t", "o", "k", "e", "n">>)

\* C12: in the q parameter no question mark of the query text appears, each
\* space of it is a '+', every byte of the UTF-8 encoding of a non-ASCII
\* character stands percent-encoded, and the other four parameters are those
\* of an ASCII query with the same types, limit and offset.
C12_QueryEncoding ==
    QueryCall =>
        LET q == pure.arg.val
            params == Params(pure.out.val)
            value == Value(params[2])
            ascii == Params(into_query_string(
                         [q EXCEPT !.query = Str(<<"t", "e", "s", "t">>)]))
        IN  /\ Count(value, Ord("?")) = 0
            /\ Count(value, Ord(" ")) = 0
            /\ Count(value, Ord("+")) = Count(q.query, Ord(" "))
            /\ NonAscii(value) = <<>>
            /\ NonAscii(PercentEncoded(value)) = NonAscii(as_bytes(q.query))
            /\ \A i \in {1, 3, 4, 5} : params[i] = ascii[i]
            /\ (q.types = <<"Album">> /\ q.limit = 5 /\ q.offset = 0)
                  => /\ q.query = Str(<<"t", "e", "s", "t", "?", "?", "?", " ",
                                        "w", "o", "w">>)
                          => pure.out.val = SpacesVector
                     /\ q.query = Cyrillic => pure.out.val = EncodingVector

C12_Witness ==
    /\ QueryCall
    /\ Count(pure.arg.val.query, Ord("?")) > 0
    /\ Count(pure.arg.val.query, Ord(" ")) > 0
    /\ NonAscii(as_bytes(pure.arg.val.query)) # <<>>
    /\ Count(Value(Params(pure.out.val)[2]), Ord("%")) = 9

\* C13: once a call has processed a 401, every send() and send_no_response()
\* whose authentication step runs before the next update_token returns
\* NoToken and does not invoke the transport; after update_token(t) a call
\* whose authentication step runs is sent with t.
C13_NoTokenUntilUpdate ==
    [][\A c \in Calls :
          authenticated_body(c)
          => /\ lastTokenOp.op = "clear_token"
                   => /\ pc'[c] = "done"
                      /\ ret'[c] = NoToken
                      /\ sends'[c] = 0
                      /\ ~hdr'[c].some
             /\ lastTokenOp.op = "update_token"
                   => /\ pc'[c] = "awaiting"
                      /\ sends'[c] = 1
                      /\ hdr'[c] = Some(<<"Bearer", lastTokenOp.arg.val>>)]_vars

C13_Witness ==
    /\ lastTokenOp.op = "clear_token"
    /\ \E c, d \in Calls :
          /\ pc[c] = "done" /\ ret[c] = InvalidToken
          /\ pc[d] = "done" /\ ret[d] = NoToken /\ sends[d] = 0

\* C14: every request handed to the transport carries Authorization
\* "Bearer <t>", t being the value of the store when the authentication step
\* held the lock, which is the argument of the latest update_token with no
\* 401 clear after it; the store does not change while the step holds the
\* lock, and the header of a request in flight is not changed by a later
\* update_token or clear.
C14_HeaderIsSnapshot ==
    /\ [][\A c \in Calls :
            /\ pc[c] = "authenticating" => token' = token
            /\ authenticated_body(c) /\ token.some
                  => /\ lastTokenOp = [op |-> "update_token", arg |-> token]
                     /\ hdr'[c] = Some(<<"Bearer", token.val>>)
                     /\ sends'[c] = sends[c] + 1
            /\ sends'[c] > sends[c] => authenticated_body(c) /\ token.some
            /\ pc[c] = "awaiting" /\ pc'[c] = "awaiting" => hdr'[c] = hdr[c]]_vars
    /\ [](\A c \in Calls :
            pc[c] = "awaiting"
                => \E t \in Tokens : hdr[c] = Some(<<"Bearer", t>>))

C14_Witness ==
    \E c, d \in Calls :
        /\ pc[c] = "awaiting" /\ hdr[c] = Some(<<"Bearer", "t1">>)
        /\ pc[d] = "awaiting" /\ hdr[d] = Some(<<"Bearer", "t2">>)
        /\ token = Some("t2")

ParseCall == pure.op = "parse_cache_control" /\ pure.out.some

\* The directives of a Cache-Control value that count as max-age, the first
\* of them, and the text between its first '=' and its next '=' or its end.
MaxAgeDirectives(h) ==
    {i \in 1..Len(split(h, ",")) : starts_with(trim(split(h, ",")[i]), MaxAgePrefix)}

FirstMaxAge(h) ==
    split(h, ",")[CHOOSE i \in MaxAgeDirectives(h) :
                     \A j \in MaxAgeDirectives(h) : i <= j]

Equals(d) == {i \in 1..Len(d) : d[i] = "="}

ValueText(d) ==
    LET e1 == CHOOSE i \in Equals(d) : \A j \in Equals(d) : i <= j
        later == {i \in Equals(d) : i > e1} \cup {Len(d) + 1}
        e2 == CHOOSE i \in later : \A j \in later : i <= j
    IN  SubSeq(d, e1 + 1, e2 - 1)

\* A run of decimal digits whose number fits 64 bits.
IsU64Digits(v) ==
    /\ v # <<>>
    /\ \A i \in 1..Len(v) : v[i] \in Digits
    /\ ~overflows_u64(strip_zeros(v))

\* The same, with the '+' that u64::from_str lets stand in front.
IsU64Text(v) == IsU64Digits(IF v # <<>> /\ v[1] = "+" THEN Tail(v) ELSE v)

U64Of(v) == DecimalValue(strip_zeros(IF v[1] = "+" THEN Tail(v) ELSE v))

\* C15 as stated: the result is N when the value text of the first max-age
\* directive is a run of decimal digits denoting the 64-bit number N, and
\* absent (max_age 10) in every other case.
C15_Original ==
    ParseCall =>
        LET h == pure.arg.val
            out == pure.out.val
        IN  IF MaxAgeDirectives(h) # {} /\ IsU64Digits(ValueText(FirstMaxAge(h)))
            THEN out = Some(U64Of(ValueText(FirstMaxAge(h))))
            ELSE out = None /\ unwrap_or(out, 10) = 10

\* C15 (amended): parse_cache_control takes the first comma-separated
\* directive whose trimmed text begins with "max-age=" and returns N when
\* the text between that directive's first '=' and its next '=' (or its end)
\* is a run of decimal digits, with or without one '+' in front, denoting
\* the 64-bit number N; in every other case the result is absent and
\* max_age is 10, also when a later max-age directive is well-formed.
C15_FirstMaxAgeDirective ==
    ParseCall =>
        LET h == pure.arg.val
            out == pure.out.val
        IN  /\ IF MaxAgeDirectives(h) # {} /\ IsU64Text(ValueText(FirstMaxAge(h)))
               THEN out = Some(U64Of(ValueText(FirstMaxAge(h))))
               ELSE out = None /\ unwrap_or(out, 10) = 10
            /\ out.some => MaxAgeDirectives(h) # {}

C15_Witness ==
    /\ ParseCall
    /\ pure.arg.val = <<" ">> \o MaxAgePrefix \o <<"5", "x", ",">>
                        \o MaxAgePrefix \o <<"0", "7">>
    /\ pure.out.val = None

\* The class of a status: one for 2xx and 304, one for 401, one for the rest.
StatusClass(s) ==
    IF s \in 200..299 \/ s = 304 THEN "success"
    ELSE IF s = 401 THEN "unauthorized"
    ELSE "failure"

\* C16: send_no_response() returns success exactly for the statuses 200..299
\* and 304, clears the token and returns InvalidToken for 401, returns
\* BadStatus(code) for every other status, which are the classes of send(),
\* and reads the body for no status.
C16_NoResponseClassification ==
    /\ [][\A c \in Calls :
            /\ pc[c] = "awaiting" /\ pc'[c] # "awaiting"
               => \A r \in Responses :
                     /\ send_req_no_response(c, r)
                        => /\ nreads'[c] = 0
                           /\ CASE StatusClass(r.status) = "success" ->
                                     pc'[c] = "done" /\ ret'[c] = OkUnit
                                [] StatusClass(r.status) = "unauthorized" ->
                                     pc'[c] = "clearing" /\ ret'[c] = Pending
                                [] OTHER ->
                                     /\ pc'[c] = "done"
                                     /\ ret'[c] = [ok |-> FALSE, error |-> "BadStatus",
                                                   code |-> r.status]
                     /\ send_req(c, r)
                        => CASE StatusClass(r.status) = "success" ->
                                  \/ pc'[c] = "reading"
                                  \/ pc'[c] = "done" /\ IsEnvelope(ret'[c])
                             [] StatusClass(r.status) = "unauthorized" ->
                                  pc'[c] = "clearing" /\ ret'[c] = Pending
                             [] OTHER ->
                                  /\ pc'[c] = "done"
                                  /\ ret'[c] = [ok |-> FALSE, error |-> "BadStatus",
                                                code |-> r.status]
            /\ pc[c] = "clear_locked" /\ pc'[c] # "clear_locked"
               => pc'[c] = "done" /\ ret'[c] = InvalidToken /\ token' = None]_vars
    /\ [](\A c \in Calls :
            mode[c] = "send_no_response" => nreads[c] = 0 /\ pc[c] # "reading")

C16_Witness ==
    /\ mode[1] = "send_no_response"
    /\ pc[1] = "done"
    /\ ret[1] = InvalidToken
    /\ sends[1] = 1
    /\ nreads[1] = 0
    /\ token = None

\* C17: in send() the ETag and Cache-Control headers are read and the status
\* is classified before the body is touched; the body is read only for a
\* status in 200..299, never for 401, 304 or a BadStatus status; for 401 the
\* store is emptied before InvalidToken is returned.
C17_BodyReadOnlyOnSuccess ==
    /\ [][\A c \in Calls :
            /\ pc[c] = "awaiting" /\ pc'[c] # "awaiting"
               => \A r \in Responses :
                     send_req(c, r)
                     => /\ nreads'[c] = 0
                        /\ pc'[c] = "reading" <=> r.status \in 200..299
                        /\ pc'[c] = "reading"
                              => /\ locals'[c].etag = EnvelopeEtag(r)
                                 /\ unwrap_or(locals'[c].cache_control, 10)
                                      = EnvelopeMaxAge(r)
            /\ nreads'[c] > nreads[c]
               => /\ pc[c] = "reading" /\ mode[c] = "send"
                  /\ nreads[c] = 0 /\ nreads'[c] = 1
                  /\ pc'[c] = "done"
            /\ ret'[c] = InvalidToken /\ ret[c] # InvalidToken
               => token' = None /\ nreads'[c] = 0]_vars
    /\ [](\A c \in Calls :
            /\ pc[c] = "reading" => nreads[c] = 0
            /\ pc[c] = "done" /\ mode[c] = "send"
               => (nreads[c] = 1 <=> \/ IsEnvelope(ret[c]) /\ ret[c].kind.tag = "Ok"
                                     \/ ret[c] = IoError)
            /\ ret[c] = InvalidToken \/ IsBadStatus(ret[c])
                 \/ (IsEnvelope(ret[c]) /\ ret[c].kind.tag = "NotModified")
               => nreads[c] = 0)

C17_Witness ==
    /\ mode[1] = "send"
    /\ pc[1] = "done"
    /\ IsEnvelope(ret[1]) /\ ret[1].kind.tag = "Ok"
    /\ nreads[1] = 1

\* C18: when the HTTP client fails to deliver a response the call returns
\* the client error, which is none of InvalidToken, BadStatus, NoToken and
\* no envelope, and is returned for nothing else; when reading the body of a
\* 2xx response fails the call returns an error and no Ok envelope; the
\* token store is the same after either.
C18_FailuresAreErrors ==
    /\ [][\A c \in Calls :
            /\ send_async_error(c)
               => /\ pc'[c] = "done"
                  /\ ret'[c] = ClientError /\ ret'[c].error = "ClientError"
                  /\ nreads'[c] = 0
                  /\ token' = token /\ lastTokenOp' = lastTokenOp
            /\ ret'[c] = ClientError /\ ret[c] # ClientError
               => send_async_error(c)
            /\ pc[c] = "reading" /\ pc'[c] # "reading"
               => \A read \in BodyReads :
                     text_read(c, read) /\ ~read.ok
                     => /\ pc'[c] = "done"
                        /\ ret'[c] = IoError /\ ret'[c].error = "IoError"
                        /\ token' = token /\ lastTokenOp' = lastTokenOp]_vars
    /\ ClientError \notin {InvalidToken, NoToken, IoError}
    /\ ~IsBadStatus(ClientError) /\ ~ClientError.ok /\ ~IoError.ok

C18_Witness ==
    /\ pc[1] = "done"
    /\ ret[1] = ClientError
    /\ sends[1] = 1
    /\ token = Some("t1")

\* C19: the clear on a 401 does not look at the stored value: when
\* update_token stored a value that no request has carried yet and a request
\* sent earlier is answered 401, the store is empty afterwards, the new value
\* is never sent, has_token() returns false and the authentication step of
\* the next call returns NoToken, until update_token is called again.
C19_ClearIsUnconditional ==
    /\ [][/\ \A c \in Calls :
               /\ pc[c] = "clear_locked" /\ pc'[c] # "clear_locked"
                  => /\ token' = None
                     /\ lastTokenOp'.op = "clear_token"
                     /\ tokenSent' = tokenSent
                     /\ pc'[c] = "done" /\ ret'[c] = InvalidToken
               /\ pc[c] = "authenticating" /\ pc'[c] # "authenticating"
                     /\ lastTokenOp.op = "clear_token"
                  => /\ pc'[c] = "done" /\ ret'[c] = NoToken /\ sends'[c] = 0
                     /\ tokenSent' = tokenSent
          /\ extpc = "has_token" /\ extpc' = "idle" /\ lastTokenOp.op = "clear_token"
               => hasRet' = Some(FALSE)
          /\ tokenSent' /\ ~tokenSent
               => /\ lastTokenOp.op = "update_token"
                  /\ \E c \in Calls :
                        /\ pc[c] = "authenticating"
                        /\ hdr'[c] = Some(<<"Bearer", lastTokenOp.arg.val>>)]_vars
    /\ [](lastTokenOp.op = "clear_token" => token = None)

C19_Witness ==
    /\ lastTokenOp.op = "clear_token"
    /\ ~tokenSent
    /\ token = None
    /\ hasRet = Some(FALSE)
    /\ \E c, d \in Calls :
          /\ pc[c] = "done" /\ ret[c] = InvalidToken /\ mode[c] = "send"
          /\ pc[d] = "done" /\ ret[d] = NoToken /\ mode[d] = "send"

\* C20: the token lock is held only inside has_token, update_token,
\* clear_token and the authentication step and never by a call that is
\* sending, awaiting its response or reading the body; at most one thread
\* holds it; whoever holds it can finish and release it without waiting for
\* anything, and when it is free every token operation that wants it can
\* take it, whatever calls are in flight.
C20_LockNeverHeldAcrossIO ==
    /\ Cardinality(lock) <= 1
    /\ lock \subseteq {Ext} \cup {Caller(c) : c \in Calls}
    /\ Ext \in lock <=> extpc \in {"has_token", "update_token"}
    /\ \A c \in Calls :
          /\ Caller(c) \in lock <=> pc[c] \in {"authenticating", "clear_locked"}
          /\ pc[c] \in {"awaiting", "reading"} => Caller(c) \notin lock
          /\ pc[c] = "authenticating" => ENABLED authenticated_body(c)
          /\ pc[c] = "clear_locked" => ENABLED clear_token_store(c)
          /\ lock = {} /\ pc[c] = "built"
                => ENABLED authenticated_lock(c, "send")
          /\ lock = {} /\ pc[c] = "clearing" => ENABLED clear_token_lock(c)
    /\ extpc = "has_token" => ENABLED has_token_return
    /\ extpc = "update_token" => ENABLED update_token_store
    /\ lock = {} /\ extpc = "idle"
          => ENABLED has_token_lock /\ ENABLED update_token_lock("t1")

C20_Witness ==
    /\ lock = {Ext}
    /\ extpc = "update_token"
    /\ \E c, d \in Calls :
          /\ pc[c] = "awaiting" /\ mode[c] = "send"
          /\ pc[d] = "reading"

=============================================================================
